---- MODULE Spec2Model ----
(***************************************************************************)
(* A model of cmark-translate: the ignore-tag wrapper of deepl.rs, the     *)
(* per-document pipeline of trans.rs and the batch driver of main.rs.      *)
(*                                                                         *)
(* Text is a sequence of one-character strings.  Three specifications      *)
(* share the variables:                                                    *)
(*   SpecIgnore  add_ignore_tags followed by remove_ignore_tags, as pure   *)
(*               functions of a markup and of the configured phrases;      *)
(*   SpecCore    the Markdown <-> markup conversion core (cmark_xml);      *)
(*   Spec        the batch of translate_cmark_file tasks run by main.      *)
(***************************************************************************)
EXTENDS Integers, Sequences, FiniteSets, TLC

VARIABLES
    \* ---- the ignore-tag wrapper (SpecIgnore)
    ipc,                \* "input" | "wrapped" | "stripped"
    markup,             \* xml_body handed to add_ignore_tags
    ignores,            \* DeeplConfig.ignores: Option<HashMap<project, phrase list>>
    replaced_xml_body,  \* what add_ignore_tags returned
    unwrapped,          \* what remove_ignore_tags returned
    \* ---- the batch of main (Spec): one task per (source, destination) pair
    free_key,           \* DeeplConfig::is_free_api_key()
    docs,               \* per task: the source file as read_cmark_with_frontmatter splits it
    pc,                 \* per task: where translate_cmark_file stands
    error,              \* per task: the kind of Err it returned, "none" before
    frontmatter,        \* per task: "unread" | "none" | "kept" | "pending" | "translated"
    steps,              \* per task: the steps translate_cmark has performed
    sent,               \* per task: the translation requests sent to the provider
    checks,             \* per task: the comparisons api_availability_check has made
    dst,                \* per task: the destination file
    used,               \* the provider's character_count
    panicked,           \* a task panicked: the process is gone
    \* ---- the conversion core (SpecCore)
    cpc,                \* "input" | "encoded" | "decoded"
    cmark_text,         \* the Markdown handed to xml_from_cmark
    xml,                \* the markup xml_from_cmark returned
    cmark_translated,   \* the Markdown cmark_from_xml returned
    \* ---- translate_cmark_file on one file (SpecFile)
    fpc,                    \* where translate_cmark_file stands
    src_extension,          \* src_path.extension(): Option<name>
    delimiter,              \* the delimiter line of the front matter, "" without one
    frontmatter_text,       \* the front matter as read: Option<text>
    body_text,              \* cmark_text: the body as read
    backup_original_text,   \* DeeplConfig.backup_original_text
    translated_frontmatter, \* Option<text>
    translated_cmark,       \* what translate_cmark returned
    requests,               \* the translation requests sent to the provider
    dst_file,               \* the destination file: Option<text>
    \* ---- the glossaries (SpecGlossary)
    rpc,                \* read_glossary: "input" | "done"
    glossary_toml,      \* the TOML file read_glossary parses
    glossary_name,      \* the name asked for
    glossary_read,      \* what read_glossary returned
    lpc,                \* DeeplConfig::glossary: "input" | "done"
    cfg_glossaries,     \* DeeplConfig.glossaries: project -> language pair -> id
    lang_pair,          \* (from_lang, to_lang) of the translation
    glossary_id,        \* what DeeplConfig::glossary returned: Option<id>
    \* ---- the quota check on the widths of the machine (SpecUsage)
    upc,                \* api_availability_check: "input" | "Ok" | "Err" | "Panic"
    character_count,    \* what get_usage returned: an i32
    payload_len,        \* text.len()
    \* ---- the pairs of directory mode (SpecWalk)
    wpc,                \* main: "input" | "walked" | "paired" | "panicked"
    input_dir,          \* the input argument, a directory
    output_dir,         \* the output argument
    max_depth,          \* the max_depth argument: Option<depth>
    target_extensions,  \* the extensions configured for the project: Option<set>
    dir_entries,        \* the entries below the input directory
    walkdir_res,        \* what walkdir::new returned
    files,              \* the (source, destination) pairs built so far
    \* ---- the languages of a translation (SpecLang)
    npc,                \* main: "input" | "parsed" | "invalid" | "sent"
    from_arg,           \* the --from argument
    to_arg,             \* the --to argument
    lang_from,          \* Language::from_str(&from)
    lang_to,            \* Language::from_str(&to)
    source_lang,        \* the source_lang parameter of the request
    target_lang         \* the target_lang parameter of the request

ignoreVars == <<ipc, markup, ignores, replaced_xml_body, unwrapped>>
batchVars ==
    <<free_key, docs, pc, error, frontmatter, steps, sent, checks, dst, used, panicked>>

coreVars == <<cpc, cmark_text, xml, cmark_translated>>

fileVars ==
    <<fpc, src_extension, delimiter, frontmatter_text, body_text, backup_original_text,
      translated_frontmatter, translated_cmark, requests, dst_file>>

glossaryVars ==
    <<rpc, glossary_toml, glossary_name, glossary_read,
      lpc, cfg_glossaries, lang_pair, glossary_id>>

usageVars == <<upc, character_count, payload_len>>

walkVars ==
    <<wpc, input_dir, output_dir, max_depth, target_extensions, dir_entries,
      walkdir_res, files>>

langVars == <<npc, from_arg, to_arg, lang_from, lang_to, source_lang, target_lang>>

cliVars == <<usageVars, walkVars, langVars>>

vars == <<ignoreVars, batchVars, coreVars, fileVars, glossaryVars, cliVars>>

(***************************************************************************)
(* Bounds of the model.                                                    *)
(***************************************************************************)
MaxElems == 2       \* elements in a markup
MaxPhrases == 2     \* phrases in a project's ignore list
MaxDocs == 2        \* documents in a batch
MaxRemaining == 3   \* characters of quota left when the batch starts, at most
MaxBlocks == 2      \* blocks in a Markdown document

(***************************************************************************)
(* Text helpers.                                                           *)
(***************************************************************************)
RECURSIVE Concat(_)
Concat(ss) == IF ss = <<>> THEN <<>> ELSE Head(ss) \o Concat(Tail(ss))

\* s has t as a substring starting at position i (exact, case-sensitive)
OccursAt(s, i, t) ==
    /\ i >= 1
    /\ i + Len(t) - 1 <= Len(s)
    /\ \A j \in 1..Len(t) : s[i + j - 1] = t[j]

Contains(s, t) == \E i \in 1..(Len(s) + 1) : OccursAt(s, i, t)

Occurrences(s, t) == {i \in 1..Len(s) : OccursAt(s, i, t)}

(***************************************************************************)
(* The marker tag.  add_ignore_tags writes it with format!, and            *)
(* remove_ignore_tags names it again in its own pattern.                   *)
(***************************************************************************)
WrapOpen == <<"<", "i", "g", "n", "o", "r", "e", "-", "t", "a", "g", ">">>
WrapClose == <<"<", "/", "i", "g", "n", "o", "r", "e", "-", "t", "a", "g", ">">>
StripOpen == <<"<", "i", "g", "n", "o", "r", "e", "-", "t", "a", "g", ">">>
StripClose == <<"<", "/", "i", "g", "n", "o", "r", "e", "-", "t", "a", "g", ">">>

(***************************************************************************)
(* The regex engine, for the patterns the phrases of this model build:     *)
(* "(?i)" followed by the phrase taken as a pattern.  A letter matches     *)
(* itself in either case, "." matches any character but a line feed, a     *)
(* space matches itself.                                                   *)
(***************************************************************************)
UpperCase == <<"A", "B", "C", "D", "E", "F", "G", "H", "I", "J", "K", "L", "M",
               "N", "O", "P", "Q", "R", "S", "T", "U", "V", "W", "X", "Y", "Z">>
LowerCase == <<"a", "b", "c", "d", "e", "f", "g", "h", "i", "j", "k", "l", "m",
               "n", "o", "p", "q", "r", "s", "t", "u", "v", "w", "x", "y", "z">>
LowerOf == [c \in {UpperCase[i] : i \in 1..26} |->
               LowerCase[CHOOSE i \in 1..26 : UpperCase[i] = c]]

to_lower(c) == IF c \in DOMAIN LowerOf THEN LowerOf[c] ELSE c

lower_text(s) == [i \in 1..Len(s) |-> to_lower(s[i])]

\* one pattern character against one character of the haystack, under (?i)
PatCharMatches(p, c) ==
    IF p = "." THEN c # "\n" ELSE to_lower(p) = to_lower(c)

\* the pattern matches the haystack at position i
RegexMatchAt(s, i, pat) ==
    /\ i + Len(pat) - 1 <= Len(s)
    /\ \A j \in 1..Len(pat) : PatCharMatches(pat[j], s[i + j - 1])

\* the least element of a non-empty set of positions
Min(S) == CHOOSE k \in S : \A m \in S : k <= m

\* the empty pattern matches once at every position, the end included
EmptyPatternWrap(s) ==
    LET W == WrapOpen \o WrapClose
        n == Len(W) + 1
    IN  [j \in 1..(Len(s) * n + Len(W)) |->
            IF ((j - 1) % n) + 1 <= Len(W)
            THEN W[((j - 1) % n) + 1]
            ELSE s[((j - 1) \div n) + 1]]

\* Regex::replace_all with the closure of add_ignore_tags: leftmost matches,
\* not overlapping, each replaced by the marker pair around the matched text
RECURSIVE ReplaceAllFrom(_, _, _)
ReplaceAllFrom(s, pat, i) ==
    LET M == {k \in i..Len(s) : RegexMatchAt(s, k, pat)}
    IN  IF M = {} THEN SubSeq(s, i, Len(s))
        ELSE LET k == Min(M)
             IN  SubSeq(s, i, k - 1)
                 \o WrapOpen \o SubSeq(s, k, k + Len(pat) - 1) \o WrapClose
                 \o ReplaceAllFrom(s, pat, k + Len(pat))

replace_all_wrap(acc, w) ==
    IF Len(w) = 0 THEN EmptyPatternWrap(acc) ELSE ReplaceAllFrom(acc, w, 1)

\* Vec::sort_by(|a, b| b.len().cmp(&a.len())): stable, longest first
RECURSIVE InsertByLen(_, _)
InsertByLen(w, sorted) ==
    IF sorted = <<>> THEN <<w>>
    ELSE IF Len(Head(sorted)) >= Len(w)
         THEN <<Head(sorted)>> \o InsertByLen(w, Tail(sorted))
         ELSE <<w>> \o sorted

RECURSIVE sort_by_len_desc(_)
sort_by_len_desc(ws) ==
    IF ws = <<>> THEN <<>>
    ELSE InsertByLen(ws[Len(ws)], sort_by_len_desc(SubSeq(ws, 1, Len(ws) - 1)))

\* Iterator::fold over the sorted phrases
RECURSIVE fold_words(_, _)
fold_words(acc, ws) ==
    IF ws = <<>> THEN acc
    ELSE fold_words(replace_all_wrap(acc, Head(ws)), Tail(ws))

\* Option<HashMap<String, Vec<String>>>: is_some says whether the option is
\* Some, keys are the keys of the map, words[k] the list under key k
IgnoresNone == [is_some |-> FALSE, keys |-> {}, words |-> <<>>]
IgnoresSome(ks, ws) == [is_some |-> TRUE, keys |-> ks, words |-> ws]

\* the list of whichever project the table holds, not of target_name
add_ignore_tags_any_project(cfg_ignores, target_name, xml_body) ==
    IF ~cfg_ignores.is_some THEN xml_body
    ELSE IF cfg_ignores.keys = {} THEN xml_body
    ELSE fold_words(xml_body,
                    sort_by_len_desc(cfg_ignores.words[CHOOSE k \in cfg_ignores.keys : TRUE]))

\* Deepl::add_ignore_tags
add_ignore_tags(cfg_ignores, target_name, xml_body) ==
    IF ~cfg_ignores.is_some THEN xml_body
    ELSE IF target_name \notin cfg_ignores.keys THEN xml_body
    ELSE fold_words(xml_body, sort_by_len_desc(cfg_ignores.words[target_name]))

\* Regex::replace_all(body, "") for (<ignore-tag>|</ignore-tag>): one pass,
\* leftmost matches, the alternatives tried in order
RECURSIVE RemoveFrom(_, _)
RemoveFrom(s, i) ==
    LET M == {k \in i..Len(s) : OccursAt(s, k, StripOpen) \/ OccursAt(s, k, StripClose)}
    IN  IF M = {} THEN SubSeq(s, i, Len(s))
        ELSE LET k == Min(M)
                 n == IF OccursAt(s, k, StripOpen) THEN Len(StripOpen) ELSE Len(StripClose)
             IN  SubSeq(s, i, k - 1) \o RemoveFrom(s, k + n)

\* Deepl::remove_ignore_tags
remove_ignore_tags(body) == RemoveFrom(body, 1)

(***************************************************************************)
(* Inputs of SpecIgnore: markups of up to MaxElems elements, each a        *)
(* paragraph or a code span around a text, and ignore lists of up to       *)
(* MaxPhrases distinct phrases.                                            *)
(***************************************************************************)
POpen == <<"<", "p", ">">>
PClose == <<"<", "/", "p", ">">>
CodeOpen == <<"<", "c", "o", "d", "e", ">">>
CodeClose == <<"<", "/", "c", "o", "d", "e", ">">>

TxtNewYork == <<"N", "e", "w", " ", "Y", "o", "r", "k">>
TxtNewLower == <<"n", "e", "w">>
TxtCity == <<"C", "i", "t", "y">>
Texts == {TxtNewYork, TxtNewLower, TxtCity}

PhrNewYork == <<"N", "e", "w", " ", "Y", "o", "r", "k">>
PhrNew == <<"N", "e", "w">>
PhrDot == <<"N", ".", "w">>
PhrTag == <<"t", "a", "g">>
PhrCode == <<"c", "o", "d", "e">>
PhraseChoices == {PhrNewYork, PhrNew, PhrDot, PhrTag, PhrCode}

Elements ==
    {POpen \o t \o PClose : t \in Texts} \cup {CodeOpen \o t \o CodeClose : t \in Texts}

SeqsUpTo(S, n) == UNION {[1..k -> S] : k \in 0..n}

Markups == {Concat(es) : es \in SeqsUpTo(Elements, MaxElems)}

PhraseLists ==
    {ws \in SeqsUpTo(PhraseChoices, MaxPhrases) :
        \A i, j \in 1..Len(ws) : i # j => ws[i] # ws[j]}

ThisProject == 1    \* index of DeeplConfig.project_name among the projects
OtherProject == 2

\* ignores absent, present without this project, or present with a list for it
IgnoreConfigs ==
    {IgnoresNone}
    \cup {IgnoresSome({OtherProject}, <<<<>>, <<PhrNew>>>>)}
    \cup {IgnoresSome({ThisProject}, <<ws, <<>>>>) : ws \in PhraseLists}

\* the phrases configured for the project; none when there is no list for it
ConfiguredPhrases ==
    IF ignores.is_some /\ ThisProject \in ignores.keys
    THEN ignores.words[ThisProject]
    ELSE <<>>

\* the batch is not running
IdleBatch ==
    /\ free_key = FALSE
    /\ docs = <<>>
    /\ pc = <<>>
    /\ error = <<>>
    /\ frontmatter = <<>>
    /\ steps = <<>>
    /\ sent = <<>>
    /\ checks = <<>>
    /\ dst = <<>>
    /\ used = 0
    /\ panicked = FALSE

\* the conversion core is not running
IdleCore ==
    /\ cpc = "idle"
    /\ cmark_text = <<>>
    /\ xml = <<>>
    /\ cmark_translated = <<>>

\* Option<T>
None == [is_some |-> FALSE]
Some(v) == [is_some |-> TRUE, value |-> v]

\* the ignore-tag wrapper is not running
IdleIgnore ==
    /\ ipc = "idle"
    /\ markup = <<>>
    /\ ignores = IgnoresNone
    /\ replaced_xml_body = <<>>
    /\ unwrapped = <<>>

\* no file is being translated
IdleFile ==
    /\ fpc = "idle"
    /\ src_extension = None
    /\ delimiter = <<>>
    /\ frontmatter_text = None
    /\ body_text = <<>>
    /\ backup_original_text = FALSE
    /\ translated_frontmatter = None
    /\ translated_cmark = <<>>
    /\ requests = <<>>
    /\ dst_file = None

\* no glossary is read or looked up
IdleGlossary ==
    /\ rpc = "idle"
    /\ glossary_toml = <<>>
    /\ glossary_name = <<>>
    /\ glossary_read = None
    /\ lpc = "idle"
    /\ cfg_glossaries = {}
    /\ lang_pair = <<>>
    /\ glossary_id = None

\* no quota check on machine widths
IdleUsage ==
    /\ upc = "idle"
    /\ character_count = 0
    /\ payload_len = 0

\* no directory is walked
IdleWalk ==
    /\ wpc = "idle"
    /\ input_dir = <<>>
    /\ output_dir = <<>>
    /\ max_depth = None
    /\ target_extensions = None
    /\ dir_entries = <<>>
    /\ walkdir_res = <<>>
    /\ files = <<>>

\* no language argument is parsed
IdleLang ==
    /\ npc = "idle"
    /\ from_arg = <<>>
    /\ to_arg = <<>>
    /\ lang_from = None
    /\ lang_to = None
    /\ source_lang = <<>>
    /\ target_lang = <<>>

IdleCli == IdleUsage /\ IdleWalk /\ IdleLang

InitIgnore ==
    /\ IdleBatch
    /\ IdleCore
    /\ IdleFile
    /\ IdleGlossary
    /\ IdleCli
    /\ ipc = "input"
    /\ markup \in Markups
    /\ ignores \in IgnoreConfigs
    /\ replaced_xml_body = <<>>
    /\ unwrapped = <<>>

\* translate_cmark, line 164
AddIgnoreTags ==
    /\ ipc = "input"
    /\ replaced_xml_body' = add_ignore_tags(ignores, ThisProject, markup)
    /\ ipc' = "wrapped"
    /\ UNCHANGED <<markup, ignores, unwrapped>>
    /\ UNCHANGED <<batchVars, coreVars, fileVars, glossaryVars, cliVars>>

\* translate_cmark, line 185, the provider having returned the markup as sent
RemoveIgnoreTags ==
    /\ ipc = "wrapped"
    /\ unwrapped' = remove_ignore_tags(replaced_xml_body)
    /\ ipc' = "stripped"
    /\ UNCHANGED <<markup, ignores, replaced_xml_body>>
    /\ UNCHANGED <<batchVars, coreVars, fileVars, glossaryVars, cliVars>>

NextIgnore == AddIgnoreTags \/ RemoveIgnoreTags

SpecIgnore == InitIgnore /\ [][NextIgnore]_vars

(***************************************************************************)
(* Vocabulary of the claims about the wrapper.                             *)
(***************************************************************************)
Range(f) == {f[i] : i \in DOMAIN f}

\* a phrase without pattern characters
IsLiteral(w) == \A j \in 1..Len(w) : w[j] # "."

\* positions of s where t occurs, letter case ignored
OccurrencesCI(s, t) ==
    {i \in 1..Len(s) : Len(t) > 0 /\ OccursAt(lower_text(s), i, lower_text(t))}

IsMarkerAt(s, k) == OccursAt(s, k, StripOpen) \/ OccursAt(s, k, StripClose)

ContainsMarker(s) == \E k \in 1..Len(s) : IsMarkerAt(s, k)

\* position p of s lies between an opening marker and its closing marker
EnclosedAt(s, p) ==
    Cardinality({k \in 1..(p - 1) : OccursAt(s, k, WrapOpen)})
        > Cardinality({k \in 1..(p - 1) : OccursAt(s, k, WrapClose)})

\* the texts directly inside a marker pair: from the end of an opening marker
\* to the next marker, when that one is a closing marker
InnermostWrapped(s) ==
    {SubSeq(s, k + Len(WrapOpen), e - 1) :
        <<k, e>> \in {<<k, e>> \in (1..Len(s)) \X (1..Len(s)) :
            /\ OccursAt(s, k, WrapOpen)
            /\ e >= k + Len(WrapOpen)
            /\ OccursAt(s, e, WrapClose)
            /\ \A m \in (k + 1)..(e - 1) : ~IsMarkerAt(s, m)}}

\* the tags of the markups of this model
MarkupTags == {POpen, PClose, CodeOpen, CodeClose}

\* the verbatim spans of a markup, tags included
CodeSpans(s) ==
    {SubSeq(s, i, e + Len(CodeClose) - 1) :
        <<i, e>> \in {<<i, e>> \in (1..Len(s)) \X (1..Len(s)) :
            /\ OccursAt(s, i, CodeOpen)
            /\ e > i
            /\ OccursAt(s, e, CodeClose)
            /\ \A m \in (i + 1)..(e - 1) : ~OccursAt(s, m, CodeClose)}}

\* s without the characters of its markers, stated position by position
MarkerPositions(s) ==
    {p \in 1..Len(s) :
        \/ \E k \in 1..p : OccursAt(s, k, StripOpen) /\ p < k + Len(StripOpen)
        \/ \E k \in 1..p : OccursAt(s, k, StripClose) /\ p < k + Len(StripClose)}

WithoutMarkers(s) ==
    LET Kept == (1..Len(s)) \ MarkerPositions(s)
    IN  [j \in 1..Cardinality(Kept) |->
            s[CHOOSE p \in Kept : Cardinality({q \in Kept : q <= p}) = j]]

(***************************************************************************)
(* C1: the wrap/strip round trip: remove_ignore_tags(add_ignore_tags(m,    *)
(* phrases)) = m for every markup and every configured phrase list.        *)
(***************************************************************************)
C1_RoundTrip == ipc = "stripped" => unwrapped = markup

C3_LongestMatchFirst ==
    ipc # "input" =>
        \A a, b \in Range(ConfiguredPhrases) :
            (IsLiteral(a) /\ IsLiteral(b) /\ a # b /\ OccurrencesCI(a, b) # {}) =>
                \A i \in OccurrencesCI(markup, a) :
                    Contains(replaced_xml_body,
                             WrapOpen \o SubSeq(markup, i, i + Len(a) - 1) \o WrapClose)

(***************************************************************************)
(* C4: add_ignore_tags wraps exactly the literal occurrences of the        *)
(* phrases, letter case ignored: each occurrence is enclosed by a marker   *)
(* pair with its casing kept, and whatever is wrapped is, letter case      *)
(* ignored, one of the phrases.                                            *)
(***************************************************************************)
C4_WrapsExactlyLiteralOccurrences ==
    ipc # "input" =>
        /\ \A w \in Range(ConfiguredPhrases) : \A i \in OccurrencesCI(markup, w) :
               \E p \in 1..Len(replaced_xml_body) :
                   /\ OccursAt(replaced_xml_body, p, SubSeq(markup, i, i + Len(w) - 1))
                   /\ EnclosedAt(replaced_xml_body, p)
        /\ \A t \in InnermostWrapped(replaced_xml_body) :
               \E w \in Range(ConfiguredPhrases) : lower_text(t) = lower_text(w)

(***************************************************************************)
(* C5: add_ignore_tags leaves every verbatim span of the markup as it was  *)
(* and puts no marker inside a tag of the markup: every tag is still there *)
(* in one piece.                                                           *)
(***************************************************************************)
C5_OnlyTranslatableText ==
    ipc # "input" =>
        /\ \A span \in CodeSpans(markup) : Contains(replaced_xml_body, span)
        /\ \A tag \in MarkupTags :
               Cardinality(Occurrences(replaced_xml_body, tag))
                   = Cardinality(Occurrences(markup, tag))

(***************************************************************************)
(* C6: remove_ignore_tags deletes the markers of its input and nothing     *)
(* else, and its result contains no marker.                                *)
(***************************************************************************)
C6_StripsEveryMarker ==
    ipc = "stripped" =>
        /\ unwrapped = WithoutMarkers(replaced_xml_body)
        /\ ~ContainsMarker(unwrapped)

(***************************************************************************)
(* The batch: main builds one future per (source, destination) pair and    *)
(* awaits them with join_all on the single thread of the runtime, so the   *)
(* tasks interleave where they await the provider.  Each action below is   *)
(* one stretch of translate_cmark_file, translate_toml, translate_cmark or *)
(* translate_xml, with the outcome of its I/O drawn from what can happen.  *)
(* A panic unwinds through join_all and main: nothing runs afterwards.     *)
(***************************************************************************)
MAX_TRANSLATE_LENGTH == 500000

Tasks == 1..MaxDocs

\* a source file: whether it has front matter, whether its extension is md
\* or mdx, and the byte lengths of its body, of the front matter strings
\* that are translated, and of the markup of its body
DocKinds ==
    {[has_frontmatter |-> FALSE, is_md_file |-> TRUE, cmark_len |-> 1, toml_len |-> 0, xml_len |-> 2],
     [has_frontmatter |-> TRUE, is_md_file |-> TRUE, cmark_len |-> 1, toml_len |-> 1, xml_len |-> 2],
     [has_frontmatter |-> TRUE, is_md_file |-> FALSE, cmark_len |-> 1, toml_len |-> 1, xml_len |-> 2]}

\* the tag names of the ignore_tags parameter of translate_xml
TagHeader == <<"h", "e", "a", "d", "e", "r">>
TagEmbed == <<"e", "m", "b", "e", "d">>
TagObject == <<"o", "b", "j", "e", "c", "t">>
TagPre == <<"p", "r", "e">>
TagCode == <<"c", "o", "d", "e">>
TagStyle == <<"s", "t", "y", "l", "e">>
TagScript == <<"s", "c", "r", "i", "p", "t">>
TagIgnore == <<"i", "g", "n", "o", "r", "e", "-", "t", "a", "g">>

\* the list without the marker tag
ignore_tags_without_marker ==
    {TagHeader, TagEmbed, TagObject, TagPre, TagCode, TagStyle, TagScript}

ignore_tags ==
    {TagHeader, TagEmbed, TagObject, TagPre, TagCode, TagStyle, TagScript, TagIgnore}

\* the steps of translate_cmark, in the order of its statements
PipelineOrder == <<"encode", "wrap", "translate", "strip", "decode">>

\* A usize is kept as its four limbs of 16 bits, the lowest first: 64 bits
\* are more than an integer of TLC holds.
LimbBase == 65536

\* get_usage() as usize: the sign of the i32 is extended
as_usize(n) ==
    <<n % LimbBase, (n \div LimbBase) % LimbBase,
      IF n < 0 THEN LimbBase - 1 ELSE 0, IF n < 0 THEN LimbBase - 1 ELSE 0>>

\* the numbers of the lowest k limbs compared
limbs_less(a, b, k) ==
    \E i \in 1..k : a[i] < b[i] /\ \A j \in (i + 1)..k : a[j] = b[j]

usize_lt(a, b) == limbs_less(a, b, 4)

\* a - b modulo 2^64
wrapping_sub(a, b) ==
    [i \in 1..4 |->
        (a[i] - b[i] - (IF limbs_less(a, b, i - 1) THEN 1 ELSE 0)) % LimbBase]

\* let remaining_chars = deepl::MAX_TRANSLATE_LENGTH - used_chars, where
\* used_chars is get_usage() as usize
remaining_chars(used_chars) ==
    wrapping_sub(as_usize(MAX_TRANSLATE_LENGTH), as_usize(used_chars))

\* the subtraction overflows
sub_overflows(used_chars) ==
    usize_lt(as_usize(MAX_TRANSLATE_LENGTH), as_usize(used_chars))

\* the check without its comparison
api_availability_check_unchecked(used_chars, text_len) == {"Ok"}

\* api_availability_check once get_usage has answered used_chars, an i32.
\* When the subtraction overflows, the build decides: a panic where overflow
\* is checked, the wrapped difference where it is not.
api_availability_check(used_chars, text_len) ==
    LET compared == IF usize_lt(remaining_chars(used_chars), as_usize(text_len))
                    THEN "Err" ELSE "Ok"
    IN  IF sub_overflows(used_chars) THEN {"Panic", compared} ELSE {compared}

\* a translation request: translate_strings or translate_xml, its ignore_tags
\* parameter, the length of its text, whether it is within the quota left
\* when it arrives, and whether the provider translated it
Request(kind, tags, len, accepted) ==
    [kind |-> kind, ignore_tags |-> tags, len |-> len,
     within |-> used + len <= MAX_TRANSLATE_LENGTH, accepted |-> accepted]

\* the provider counts the characters of a request it accepts, and accepts
\* none that would take the count over the limit of the plan
ProviderAccepts(len) == used + len <= MAX_TRANSLATE_LENGTH

InitBatch ==
    /\ IdleCore
    /\ IdleFile
    /\ IdleGlossary
    /\ IdleCli
    /\ ipc = "idle"
    /\ markup = <<>>
    /\ ignores = IgnoresNone
    /\ replaced_xml_body = <<>>
    /\ unwrapped = <<>>
    /\ free_key \in BOOLEAN
    /\ docs \in [Tasks -> DocKinds]
    /\ pc = [t \in Tasks |-> "start"]
    /\ error = [t \in Tasks |-> "none"]
    /\ frontmatter = [t \in Tasks |-> "unread"]
    /\ steps = [t \in Tasks |-> <<>>]
    /\ sent = [t \in Tasks |-> <<>>]
    /\ checks = [t \in Tasks |-> <<>>]
    /\ dst = [t \in Tasks |-> "untouched"]
    /\ used \in {MAX_TRANSLATE_LENGTH - r : r \in 0..MaxRemaining}
    /\ panicked = FALSE

Running(t, at) == ~panicked /\ pc[t] = at

Goto(t, next) == pc' = [pc EXCEPT ![t] = next]

\* the function returns Err(kind) to main, which prints it
ReturnErr(t, kind) ==
    /\ pc' = [pc EXCEPT ![t] = "err"]
    /\ error' = [error EXCEPT ![t] = kind]

\* unwrap() on an Err: the panic takes the whole process down
Panic(t) ==
    /\ pc' = [pc EXCEPT ![t] = "panic"]
    /\ panicked' = TRUE

\* what api_availability_check compared: the length of the text, whether it
\* is within the quota left by the provider's count, and how many requests
\* the task had sent
Compared(t, text_len) ==
    [text_len |-> text_len, within |-> text_len <= MAX_TRANSLATE_LENGTH - used,
     sent_before |-> Len(sent[t])]

\* if deepl.config.is_free_api_key() { api_availability_check(..).await?; }
QuotaCheck(t, text_len, next) ==
    \/ /\ ~free_key
       /\ Goto(t, next)
       /\ UNCHANGED <<error, panicked, checks>>
    \/ /\ free_key              \* get_usage() is an Err: unwrap() panics
       /\ Panic(t)
       /\ UNCHANGED <<error, checks>>
    \/ /\ free_key
       /\ checks' = [checks EXCEPT ![t] = Append(@, Compared(t, text_len))]
       /\ \E outcome \in api_availability_check(used, text_len) :
            \/ /\ outcome = "Ok"
               /\ Goto(t, next)
               /\ UNCHANGED <<error, panicked>>
            \/ /\ outcome = "Err"
               /\ ReturnErr(t, "quota")
               /\ UNCHANGED panicked
            \/ /\ outcome = "Panic"
               /\ Panic(t)
               /\ UNCHANGED error

\* translate_cmark_file, lines 17-30: open and split the source file
OpenSource(t) ==
    /\ Running(t, "start")
    /\ \/ /\ Goto(t, "file_check")
          /\ frontmatter' = [frontmatter EXCEPT ![t] =
                IF docs[t].has_frontmatter THEN "pending" ELSE "none"]
          /\ UNCHANGED error
       \/ /\ ReturnErr(t, "io")
          /\ UNCHANGED frontmatter
    /\ UNCHANGED <<free_key, docs, checks, steps, sent, dst, used, panicked>>
    /\ UNCHANGED <<ignoreVars, coreVars, fileVars, glossaryVars, cliVars>>

\* translate_cmark_file, lines 32-35: the check against the body as read
FileQuotaCheck(t) ==
    /\ Running(t, "file_check")
    /\ QuotaCheck(t, docs[t].cmark_len, "frontmatter")
    /\ UNCHANGED <<free_key, docs, frontmatter, steps, sent, dst, used>>
    /\ UNCHANGED <<ignoreVars, coreVars, fileVars, glossaryVars, cliVars>>

\* the front matter is translated when there is one and the file is not .md/.mdx
translates_frontmatter(doc) == doc.has_frontmatter /\ ~doc.is_md_file

\* translate_cmark_file, lines 38-45, and translate_toml, lines 86-118
RouteFrontMatter(t) ==
    /\ Running(t, "frontmatter")
    /\ \/ /\ translates_frontmatter(docs[t])
          /\ Goto(t, "toml_check")
          /\ UNCHANGED <<error, frontmatter>>
       \/ /\ translates_frontmatter(docs[t])     \* the front matter is not TOML
          /\ ReturnErr(t, "toml")
          /\ UNCHANGED frontmatter
       \/ /\ ~translates_frontmatter(docs[t])
          /\ Goto(t, "encode")
          /\ frontmatter' = [frontmatter EXCEPT ![t] =
                IF docs[t].has_frontmatter THEN "kept" ELSE "none"]
          /\ UNCHANGED error
    /\ UNCHANGED <<free_key, docs, checks, steps, sent, dst, used, panicked>>
    /\ UNCHANGED <<ignoreVars, coreVars, fileVars, glossaryVars, cliVars>>

\* translate_toml, lines 120-123
TomlQuotaCheck(t) ==
    /\ Running(t, "toml_check")
    /\ QuotaCheck(t, docs[t].toml_len, "toml_translate")
    /\ UNCHANGED <<free_key, docs, frontmatter, steps, sent, dst, used>>
    /\ UNCHANGED <<ignoreVars, coreVars, fileVars, glossaryVars, cliVars>>

\* translate_toml, lines 131-145: the translations put in place
TomlTranslated(t) ==
    /\ used' = used + docs[t].toml_len
    /\ frontmatter' = [frontmatter EXCEPT ![t] = "translated"]
    /\ Goto(t, "encode")
    /\ UNCHANGED error

\* translate_toml, line 129: the error of translate_strings mapped and returned
TomlFailed(t) ==
    /\ ReturnErr(t, "provider")
    /\ UNCHANGED <<used, frontmatter>>

\* translate_toml, lines 125-145: translate_strings and what follows
TomlTranslate(t) ==
    /\ Running(t, "toml_translate")
    /\ \E accepted \in BOOLEAN :
          /\ sent' = [sent EXCEPT ![t] =
                        Append(@, Request("strings", {}, docs[t].toml_len, accepted))]
          /\ accepted => ProviderAccepts(docs[t].toml_len)
          /\ IF accepted THEN TomlTranslated(t) ELSE TomlFailed(t)
    /\ UNCHANGED <<free_key, docs, checks, steps, dst, panicked>>
    /\ UNCHANGED <<ignoreVars, coreVars, fileVars, glossaryVars, cliVars>>

\* translate_cmark, line 160: xml_from_cmark
Encode(t) ==
    /\ Running(t, "encode")
    /\ steps' = [steps EXCEPT ![t] = Append(@, "encode")]
    /\ Goto(t, "wrap")
    /\ UNCHANGED <<free_key, docs, checks, error, frontmatter, sent, dst, used, panicked>>
    /\ UNCHANGED <<ignoreVars, coreVars, fileVars, glossaryVars, cliVars>>

\* translate_cmark, lines 163-164: add_ignore_tags
Wrap(t) ==
    /\ Running(t, "wrap")
    /\ steps' = [steps EXCEPT ![t] = Append(@, "wrap")]
    /\ Goto(t, "xml_check")
    /\ UNCHANGED <<free_key, docs, checks, error, frontmatter, sent, dst, used, panicked>>
    /\ UNCHANGED <<ignoreVars, coreVars, fileVars, glossaryVars, cliVars>>

\* translate_cmark, lines 168-171: the check against the markup
XmlQuotaCheck(t) ==
    /\ Running(t, "xml_check")
    /\ QuotaCheck(t, docs[t].xml_len, "list_glossaries")
    /\ UNCHANGED <<free_key, docs, frontmatter, steps, sent, dst, used>>
    /\ UNCHANGED <<ignoreVars, coreVars, fileVars, glossaryVars, cliVars>>

\* translate_xml, lines 129-148: list_glossaries().await.unwrap()
ListGlossaries(t) ==
    /\ Running(t, "list_glossaries")
    /\ \/ /\ Goto(t, "post")
          /\ UNCHANGED panicked
       \/ Panic(t)
    /\ UNCHANGED <<free_key, docs, checks, error, frontmatter, steps, sent, dst, used>>
    /\ UNCHANGED <<ignoreVars, coreVars, fileVars, glossaryVars, cliVars>>

\* translate_xml, lines 150-175, and the unwrap() of translate_cmark, line 177
PostXml(t) ==
    /\ Running(t, "post")
    /\ steps' = [steps EXCEPT ![t] = Append(@, "translate")]
    /\ \E accepted \in BOOLEAN :
          /\ sent' = [sent EXCEPT ![t] =
                        Append(@, Request("xml", ignore_tags, docs[t].xml_len, accepted))]
          /\ accepted => ProviderAccepts(docs[t].xml_len)
          /\ IF accepted
             THEN /\ used' = used + docs[t].xml_len
                  /\ Goto(t, "strip")
                  /\ UNCHANGED panicked
             ELSE /\ Panic(t)
                  /\ UNCHANGED used
    /\ UNCHANGED <<free_key, docs, checks, error, frontmatter, dst>>
    /\ UNCHANGED <<ignoreVars, coreVars, fileVars, glossaryVars, cliVars>>

\* translate_cmark, line 185: remove_ignore_tags
Strip(t) ==
    /\ Running(t, "strip")
    /\ steps' = [steps EXCEPT ![t] = Append(@, "strip")]
    /\ Goto(t, "decode")
    /\ UNCHANGED <<free_key, docs, checks, error, frontmatter, sent, dst, used, panicked>>
    /\ UNCHANGED <<ignoreVars, coreVars, fileVars, glossaryVars, cliVars>>

\* translate_cmark, line 191: cmark_from_xml(..).unwrap()
Decode(t) ==
    /\ Running(t, "decode")
    /\ steps' = [steps EXCEPT ![t] = Append(@, "decode")]
    /\ \/ /\ Goto(t, "write")
          /\ UNCHANGED panicked
       \/ Panic(t)
    /\ UNCHANGED <<free_key, docs, checks, error, frontmatter, sent, dst, used>>
    /\ UNCHANGED <<ignoreVars, coreVars, fileVars, glossaryVars, cliVars>>

\* the output file created before the body is translated
ReadyToWriteBeforeTranslation(t) == ~panicked /\ pc[t] \in {"xml_check", "write"}

\* translate_cmark_file reaches its output statements, lines 51-75
ReadyToWrite(t) == Running(t, "write")

\* translate_cmark_file, lines 51-75: create_dir_all, File::create, write_all
WriteOutput(t) ==
    /\ ReadyToWrite(t)
    /\ \/ /\ dst' = [dst EXCEPT ![t] = "written"]
          /\ Goto(t, "ok")
          /\ UNCHANGED error
       \/ /\ ReturnErr(t, "io")           \* create_dir_all or File::create fails
          /\ UNCHANGED dst
       \/ /\ ReturnErr(t, "io")           \* write_all fails on the created file
          /\ dst' = [dst EXCEPT ![t] = "partial"]
    /\ UNCHANGED <<free_key, docs, checks, frontmatter, steps, sent, used, panicked>>
    /\ UNCHANGED <<ignoreVars, coreVars, fileVars, glossaryVars, cliVars>>

Next ==
    \E t \in Tasks :
        \/ OpenSource(t)
        \/ FileQuotaCheck(t)
        \/ RouteFrontMatter(t)
        \/ TomlQuotaCheck(t)
        \/ TomlTranslate(t)
        \/ Encode(t)
        \/ Wrap(t)
        \/ XmlQuotaCheck(t)
        \/ ListGlossaries(t)
        \/ PostXml(t)
        \/ Strip(t)
        \/ Decode(t)
        \/ WriteOutput(t)

Spec == InitBatch /\ [][Next]_vars

(***************************************************************************)
(* Vocabulary of the claims about the batch.                               *)
(***************************************************************************)
IsPrefix(a, b) == Len(a) <= Len(b) /\ a = SubSeq(b, 1, Len(a))

\* the tag name inside "<name>"
MarkerName(open) == SubSeq(open, 2, Len(open) - 1)

(***************************************************************************)
(* C7: translate_cmark performs encode, wrap, translate, strip, decode in  *)
(* this order, each once: what a task has performed is always a beginning  *)
(* of that order, and all of it once translate_cmark has returned Ok.  The *)
(* marker tag the wrap step writes is among the ignore tags of every       *)
(* markup request sent, and is the tag the strip step removes.             *)
(***************************************************************************)
C7_PipelineOrder ==
    \A t \in Tasks :
        /\ IsPrefix(steps[t], PipelineOrder)
        /\ pc[t] \in {"write", "ok"} => steps[t] = PipelineOrder
        /\ \A i \in 1..Len(sent[t]) :
              sent[t][i].kind = "xml" =>
                  /\ MarkerName(WrapOpen) \in sent[t][i].ignore_tags
                  /\ SubSeq(steps[t], 1, 3) = SubSeq(PipelineOrder, 1, 3)
        /\ StripOpen = WrapOpen
        /\ StripClose = WrapClose

C7_Witness ==
    \E t \in Tasks :
        /\ pc[t] = "ok"
        /\ steps[t] = PipelineOrder
        /\ \E i \in 1..Len(sent[t]) : sent[t][i].kind = "xml"

(***************************************************************************)
(* C9: in a batch, the failure of one document never keeps the other       *)
(* documents from running to their own success or failure.                 *)
(***************************************************************************)
C9_FailureIsolated ==
    \A t, u \in Tasks :
        (t # u /\ pc[t] \in {"err", "panic"}) => (pc[u] \in {"ok", "err"} \/ ~panicked)

(***************************************************************************)
(* C10: no partial output: the destination file is created or written only *)
(* after the front matter and the body have both been translated; a task   *)
(* whose quota check or translation failed leaves its destination alone.   *)
(***************************************************************************)
C10_NoPartialOutput ==
    \A t \in Tasks :
        /\ dst[t] # "untouched" =>
              /\ steps[t] = PipelineOrder
              /\ frontmatter[t] \in {"none", "kept", "translated"}
              /\ pc[t] \in {"ok", "err"}
        /\ (error[t] \in {"quota", "provider", "toml"} \/ pc[t] = "panic") =>
              dst[t] = "untouched"

C10_Witness ==
    \E t, u \in Tasks :
        /\ dst[t] = "written"
        /\ frontmatter[t] = "translated"
        /\ error[u] \in {"quota", "provider"}
        /\ dst[u] = "untouched"

(***************************************************************************)
(* Vocabulary of the claims about the quota.                               *)
(***************************************************************************)
\* request i of task t was sent after a check of a text of its length that
\* found it no longer than the quota left
PrecededByCheck(t, i) ==
    \E k \in 1..Len(checks[t]) :
        /\ checks[t][k].sent_before = i - 1
        /\ checks[t][k].text_len = sent[t][i].len
        /\ checks[t][k].within

\* check k of task t found the text longer than the quota left
Refused(t, k) == ~checks[t][k].within

ChecksGuardSubmissions ==
    \A t \in Tasks :
        /\ \A i \in 1..Len(sent[t]) : PrecededByCheck(t, i)
        /\ \A k \in 1..Len(checks[t]) :
              Refused(t, k) =>
                  /\ pc[t] = "err"
                  /\ error[t] = "quota"
                  /\ Len(sent[t]) = checks[t][k].sent_before

\* every request of the batch, task after task
AllRequests == Concat(sent)

\* a request draws on the quota unless the provider failed it for another
\* reason than the quota
DrawsOnQuota(r) == r.accepted \/ ~r.within

RECURSIVE SumOfLens(_)
SumOfLens(reqs) ==
    IF reqs = <<>> THEN 0
    ELSE (IF DrawsOnQuota(Head(reqs)) THEN Head(reqs).len ELSE 0) + SumOfLens(Tail(reqs))

RECURSIVE SumOfAccepted(_)
SumOfAccepted(reqs) ==
    IF reqs = <<>> THEN 0
    ELSE (IF Head(reqs).accepted THEN Head(reqs).len ELSE 0) + SumOfAccepted(Tail(reqs))

\* the quota left when the batch started: what is left now and what the
\* requests of the batch have used
QuotaAtStart == MAX_TRANSLATE_LENGTH - used + SumOfAccepted(AllRequests)

(***************************************************************************)
(* C11, as stated: every request sent to the provider is preceded by a     *)
(* check of its length against the quota left, and a check that finds the  *)
(* text longer returns an error and no request for it is sent.             *)
(***************************************************************************)
C11_EverySubmissionChecked == ChecksGuardSubmissions

(***************************************************************************)
(* C11, amended: with an API key of the free plan, every request sent to   *)
(* the provider is preceded by a check of its length against the quota     *)
(* left, and a check that finds the text longer returns an error and no    *)
(* request for it is sent.  (With any other key there is no check.)        *)
(***************************************************************************)
C11_CheckedWithFreeKey == free_key => ChecksGuardSubmissions

C11_Witness ==
    /\ free_key
    /\ \E t, u \in Tasks :
          /\ error[t] = "quota"
          /\ \E k \in 1..Len(checks[t]) : Refused(t, k)
          /\ pc[u] = "ok"
          /\ Len(sent[u]) = 2
          /\ \A i \in 1..Len(sent[u]) : PrecededByCheck(u, i)

(***************************************************************************)
(* C12: a document that ends in a failed quota check has sent no           *)
(* translation request before, neither for its front matter nor for its    *)
(* body.                                                                   *)
(***************************************************************************)
C12_NoRequestBeforeQuotaFailure ==
    \A t \in Tasks : error[t] = "quota" => sent[t] = <<>>

(***************************************************************************)
(* C13: a failure of the provider or of the decoder is returned to the     *)
(* caller as an error: no task aborts the process, and a task that returns *)
(* Ok has performed every step.                                            *)
(***************************************************************************)
C13_TypedFailure ==
    \A t \in Tasks :
        /\ pc[t] # "panic"
        /\ pc[t] = "ok" => (steps[t] = PipelineOrder /\ dst[t] = "written")

(***************************************************************************)
(* C20: the requests of a batch that passed their checks never add up to   *)
(* more than the quota that was left when the batch started.               *)
(***************************************************************************)
C20_BatchWithinQuota ==
    (free_key /\ AllRequests # <<>>) => SumOfLens(AllRequests) <= QuotaAtStart

(***************************************************************************)
(* The conversion core, cmark_xml: xml_from_cmark and cmark_from_xml.      *)
(* Its source is not among the files of src/; it is modelled after         *)
(* sections 3 and 4 of the specification, for documents of headings and    *)
(* paragraphs whose inlines are text, strong emphasis and code spans.      *)
(*                                                                         *)
(* A block is [type, level, children], an inline [type, content].          *)
(***************************************************************************)
LF == "\n"

\* the first position from i on where t occurs in s, 0 when there is none
FindFirst(s, i, t) ==
    LET M == {k \in i..Len(s) : OccursAt(s, k, t)}
    IN  IF M = {} THEN 0 ELSE Min(M)

Repeat(c, n) == [j \in 1..n |-> c]

TextNode(content) == [type |-> "text", content |-> content]
StrongNode(content) == [type |-> "strong", content |-> content]
CodeNode(content) == [type |-> "code", content |-> content]
Paragraph(children) == [type |-> "paragraph", level |-> 0, children |-> children]
Heading(level, children) == [type |-> "heading", level |-> level, children |-> children]

StrongMark == <<"*", "*">>
\* the code span delimiter, the grave accent, which a TLA+ string cannot hold:
\* the apostrophe stands for it
CodeMark == <<"'">>

\* ---- Markdown to tree (the CommonMark parser of the encoder)

\* the inlines of a text run: strong emphasis, code spans, and text between
RECURSIVE md_parse_inlines(_, _)
md_parse_inlines(s, i) ==
    IF i > Len(s) THEN <<>>
    ELSE IF OccursAt(s, i, StrongMark) /\ FindFirst(s, i + 2, StrongMark) > 0
    THEN LET k == FindFirst(s, i + 2, StrongMark)
         IN  <<StrongNode(SubSeq(s, i + 2, k - 1))>> \o md_parse_inlines(s, k + 2)
    ELSE IF OccursAt(s, i, CodeMark) /\ FindFirst(s, i + 1, CodeMark) > 0
    THEN LET k == FindFirst(s, i + 1, CodeMark)
         IN  <<CodeNode(SubSeq(s, i + 1, k - 1))>> \o md_parse_inlines(s, k + 1)
    ELSE LET M == {k \in (i + 1)..Len(s) :
                      OccursAt(s, k, StrongMark) \/ OccursAt(s, k, CodeMark)}
             e == IF M = {} THEN Len(s) + 1 ELSE Min(M)
         IN  <<TextNode(SubSeq(s, i, e - 1))>> \o md_parse_inlines(s, e)

\* the number of "#" a block starts with
LeadingHashes(b) ==
    LET M == {k \in 1..Len(b) : b[k] # "#"}
    IN  IF M = {} THEN Len(b) ELSE Min(M) - 1

\* an ATX heading of level 1..6, or a paragraph
md_parse_block(b) ==
    LET n == LeadingHashes(b)
    IN  IF n >= 1 /\ n <= 6 /\ n < Len(b) /\ b[n + 1] = " "
        THEN Heading(n, md_parse_inlines(b, n + 2))
        ELSE Paragraph(md_parse_inlines(b, 1))

\* blocks are separated by blank lines; line feeds around them are dropped
RECURSIVE md_parse_blocks(_, _)
md_parse_blocks(x, i) ==
    LET S == {k \in i..Len(x) : x[k] # LF}
    IN  IF S = {} THEN <<>>
        ELSE LET b == Min(S)
                 k == FindFirst(x, b, <<LF, LF>>)
                 t == FindFirst(x, b, <<LF>>)
                 e == IF k > 0 THEN k ELSE IF t > 0 THEN t ELSE Len(x) + 1
             IN  <<md_parse_block(SubSeq(x, b, e - 1))>> \o md_parse_blocks(x, e)

\* ---- tree to markup (the serializer of the encoder)

\* literal text escaped for the three markup metacharacters
escape_char(c) ==
    IF c = "<" THEN <<"&", "l", "t", ";">>
    ELSE IF c = ">" THEN <<"&", "g", "t", ";">>
    ELSE IF c = "&" THEN <<"&", "a", "m", "p", ";">>
    ELSE <<c>>

escape_text(s) == Concat([j \in 1..Len(s) |-> escape_char(s[j])])

\* the tag vocabulary: one element per variant
OpenTag(name) == <<"<">> \o name \o <<">">>
CloseTag(name) == <<"<", "/">> \o name \o <<">">>
RootName == <<"b", "o", "d", "y">>
ParagraphName == <<"p">>
StrongName == <<"s", "t", "r", "o", "n", "g">>
CodeName == <<"c", "o", "d", "e">>
LevelDigit == <<"1", "2", "3", "4", "5", "6">>
HeadingName(level) == <<"h", LevelDigit[level]>>

InlineName(n) == IF n.type = "strong" THEN StrongName ELSE CodeName

xml_of_inline(n) ==
    IF n.type = "text" THEN escape_text(n.content)
    ELSE OpenTag(InlineName(n)) \o escape_text(n.content) \o CloseTag(InlineName(n))

BlockName(b) == IF b.type = "heading" THEN HeadingName(b.level) ELSE ParagraphName

xml_of_block(b) ==
    OpenTag(BlockName(b))
    \o Concat([j \in 1..Len(b.children) |-> xml_of_inline(b.children[j])])
    \o CloseTag(BlockName(b))

xml_of_document(blocks) == Concat([j \in 1..Len(blocks) |-> xml_of_block(blocks[j])])

\* cmark_xml::xml_from_cmark
xml_from_cmark(text, wrap_in_root) ==
    LET body == xml_of_document(md_parse_blocks(text, 1))
    IN  IF wrap_in_root THEN OpenTag(RootName) \o body \o CloseTag(RootName) ELSE body

\* ---- markup to tree (the parser of the decoder)

\* entities that are not decoded stay as they are
unescape_missing_amp(e) ==
    IF e = <<"&", "l", "t", ";">> THEN <<"<">>
    ELSE IF e = <<"&", "g", "t", ";">> THEN <<">">>
    ELSE e

unescape_entity(e) ==
    IF e = <<"&", "l", "t", ";">> THEN <<"<">>
    ELSE IF e = <<"&", "g", "t", ";">> THEN <<">">>
    ELSE IF e = <<"&", "a", "m", "p", ";">> THEN <<"&">>
    ELSE e

RECURSIVE unescape_text(_, _)
unescape_text(s, i) ==
    LET k == FindFirst(s, i, <<"&">>)
        e == IF k = 0 THEN 0 ELSE FindFirst(s, k, <<";">>)
    IN  IF k = 0 \/ e = 0 THEN SubSeq(s, i, Len(s))
        ELSE SubSeq(s, i, k - 1) \o unescape_entity(SubSeq(s, k, e))
             \o unescape_text(s, e + 1)

RECURSIVE xml_parse_inlines(_, _)
xml_parse_inlines(s, i) ==
    IF i > Len(s) THEN <<>>
    ELSE IF OccursAt(s, i, OpenTag(StrongName))
    THEN LET k == FindFirst(s, i, CloseTag(StrongName))
         IN  <<StrongNode(unescape_text(SubSeq(s, i + Len(OpenTag(StrongName)), k - 1), 1))>>
             \o xml_parse_inlines(s, k + Len(CloseTag(StrongName)))
    ELSE IF OccursAt(s, i, OpenTag(CodeName))
    THEN LET k == FindFirst(s, i, CloseTag(CodeName))
         IN  <<CodeNode(unescape_text(SubSeq(s, i + Len(OpenTag(CodeName)), k - 1), 1))>>
             \o xml_parse_inlines(s, k + Len(CloseTag(CodeName)))
    ELSE LET k == FindFirst(s, i + 1, <<"<">>)
             e == IF k = 0 THEN Len(s) + 1 ELSE k
         IN  <<TextNode(unescape_text(SubSeq(s, i, e - 1), 1))>> \o xml_parse_inlines(s, e)

\* the level of the heading tag at position i, 0 for any other tag
HeadingLevelAt(s, i) ==
    LET L == {l \in 1..6 : OccursAt(s, i, OpenTag(HeadingName(l)))}
    IN  IF L = {} THEN 0 ELSE CHOOSE l \in L : TRUE

RECURSIVE xml_parse_blocks(_, _)
xml_parse_blocks(s, i) ==
    IF i > Len(s) THEN <<>>
    ELSE LET l == HeadingLevelAt(s, i)
             name == IF l > 0 THEN HeadingName(l) ELSE ParagraphName
             k == FindFirst(s, i, CloseTag(name))
             inner == xml_parse_inlines(SubSeq(s, i + Len(OpenTag(name)), k - 1), 1)
         IN  <<IF l > 0 THEN Heading(l, inner) ELSE Paragraph(inner)>>
             \o xml_parse_blocks(s, k + Len(CloseTag(name)))

\* ---- tree to Markdown (the renderer of the decoder)

cmark_of_inline(n) ==
    IF n.type = "strong" THEN StrongMark \o n.content \o StrongMark
    ELSE IF n.type = "code" THEN CodeMark \o n.content \o CodeMark
    ELSE n.content

cmark_of_block(b) ==
    (IF b.type = "heading" THEN Repeat("#", b.level) \o <<" ">> ELSE <<>>)
    \o Concat([j \in 1..Len(b.children) |-> cmark_of_inline(b.children[j])])

\* blocks one blank line apart, a line feed after the last
cmark_of_document(blocks) ==
    Concat([j \in 1..Len(blocks) |->
               cmark_of_block(blocks[j]) \o (IF j < Len(blocks) THEN <<LF, LF>> ELSE <<LF>>)])

\* cmark_xml::cmark_from_xml, on markup that is well formed
cmark_from_xml(markup_text, unwrap_root) ==
    LET body == IF unwrap_root
                THEN SubSeq(markup_text, Len(OpenTag(RootName)) + 1,
                            Len(markup_text) - Len(CloseTag(RootName)))
                ELSE markup_text
    IN  cmark_of_document(xml_parse_blocks(body, 1))

\* ---- the inputs: documents of up to MaxBlocks blocks, written out with
\* one or two blank lines between blocks and with or without a final line feed
InlineRuns ==
    {<<TextNode(<<"a">>)>>,
     <<TextNode(<<"<", "&", ">">>)>>,
     <<StrongNode(<<"b">>)>>,
     <<TextNode(<<"a", " ">>), StrongNode(<<"b", "&">>), TextNode(<<".">>)>>,
     <<CodeNode(<<"<", "p", ">">>)>>,
     <<TextNode(<<"a">>), CodeNode(<<"&">>)>>}

BlockChoices ==
    {Paragraph(r) : r \in InlineRuns}
    \cup {Heading(1, r) : r \in InlineRuns}
    \cup {Heading(2, r) : r \in InlineRuns}

Documents == SeqsUpTo(BlockChoices, MaxBlocks)

WriteCmark(blocks, blank_lines, final_lf) ==
    Concat([j \in 1..Len(blocks) |->
               cmark_of_block(blocks[j])
               \o (IF j < Len(blocks) THEN Repeat(LF, blank_lines + 1)
                   ELSE IF final_lf THEN <<LF>> ELSE <<>>)])

InitCore ==
    /\ IdleBatch
    /\ IdleFile
    /\ IdleGlossary
    /\ IdleCli
    /\ ipc = "idle"
    /\ markup = <<>>
    /\ ignores = IgnoresNone
    /\ replaced_xml_body = <<>>
    /\ unwrapped = <<>>
    /\ cpc = "input"
    /\ cmark_text \in {WriteCmark(d, n, f) : d \in Documents, n \in 1..2, f \in BOOLEAN}
    /\ xml = <<>>
    /\ cmark_translated = <<>>

\* translate_cmark, line 160
XmlFromCmark ==
    /\ cpc = "input"
    /\ xml' = xml_from_cmark(cmark_text, TRUE)
    /\ cpc' = "encoded"
    /\ UNCHANGED <<cmark_text, cmark_translated>>
    /\ UNCHANGED <<ignoreVars, batchVars, fileVars, glossaryVars, cliVars>>

\* translate_cmark, line 191, on the markup as encoded
CmarkFromXml ==
    /\ cpc = "encoded"
    /\ cmark_translated' = cmark_from_xml(xml, TRUE)
    /\ cpc' = "decoded"
    /\ UNCHANGED <<cmark_text, xml>>
    /\ UNCHANGED <<ignoreVars, batchVars, fileVars, glossaryVars, cliVars>>

NextCore == XmlFromCmark \/ CmarkFromXml

SpecCore == InitCore /\ [][NextCore]_vars

\* a text without the line feeds CommonMark does not read: those that end
\* it, and those beyond the two of a blank line
RECURSIVE DropExtraLF(_, _)
DropExtraLF(x, i) ==
    LET k == FindFirst(x, i, <<LF, LF>>)
        S == IF k = 0 THEN {} ELSE {j \in (k + 2)..Len(x) : x[j] # LF}
    IN  IF k = 0 THEN SubSeq(x, i, Len(x))
        ELSE IF S = {} THEN SubSeq(x, i, k + 1)
        ELSE SubSeq(x, i, k + 1) \o DropExtraLF(x, Min(S))

StripFinalLF(x) ==
    LET S == {j \in 1..Len(x) : x[j] # LF}
    IN  IF S = {} THEN <<>> ELSE SubSeq(x, 1, CHOOSE j \in S : \A m \in S : m <= j)

SignificantText(x) == StripFinalLF(DropExtraLF(x, 1))

TomlString(s) == [kind |-> "String", str |-> s, table |-> <<>>]
TomlInteger(digits) == [kind |-> "Integer", str |-> digits, table |-> <<>>]
TomlTable(t) == [kind |-> "Table", str |-> <<>>, table |-> t]
Entry(key, val) == [key |-> key, val |-> val]

KeyAuthor == <<"a", "u", "t", "h", "o", "r">>
KeyDescription == <<"d", "e", "s", "c", "r", "i", "p", "t", "i", "o", "n">>
KeyExtra == <<"e", "x", "t", "r", "a">>
KeyMath == <<"m", "a", "t", "h">>
KeyTime == <<"t", "i", "m", "e">>
KeyTitle == <<"t", "i", "t", "l", "e">>
KeyWeight == <<"w", "e", "i", "g", "h", "t">>

\* should_be_translate: the places of the strings translate_toml picks, in
\* the order it meets them; a place is <<i>> at the top level or <<i, j>>
\* inside the table of entry i
PickedInExtra(i, extra) ==
    Concat([j \in 1..Len(extra) |->
               IF extra[j].key = KeyTime /\ extra[j].val.kind = "String"
               THEN <<(<<i, j>>)>> ELSE <<>>])

should_be_translate(root) ==
    Concat([i \in 1..Len(root) |->
               IF root[i].key \in {KeyTitle, KeyDescription}
               THEN (IF root[i].val.kind = "String" THEN <<(<<i>>)>> ELSE <<>>)
               ELSE IF root[i].key = KeyExtra
               THEN (IF root[i].val.kind = "Table"
                     THEN PickedInExtra(i, root[i].val.table) ELSE <<>>)
               ELSE <<>>])

StringAt(root, place) ==
    IF Len(place) = 1 THEN root[place[1]].val.str
    ELSE root[place[1]].val.table[place[2]].val.str

src_vec(root) ==
    [k \in 1..Len(should_be_translate(root)) |-> StringAt(root, should_be_translate(root)[k])]

\* zip(translated_vec): the places that get a translation, each with its own
Zipped(places, translated_vec) ==
    {k \in 1..Len(places) : k <= Len(translated_vec)}

\* zip with the translations taken from the end
replace_values_reversed(root, places, translated_vec) ==
    LET n == Len(translated_vec)
        New(place, old) ==
            IF \E k \in Zipped(places, translated_vec) : places[k] = place
            THEN TomlString(translated_vec[
                     n + 1 - (CHOOSE k \in Zipped(places, translated_vec) : places[k] = place)])
            ELSE old
    IN  [i \in 1..Len(root) |->
            IF root[i].val.kind = "Table"
            THEN Entry(root[i].key,
                       TomlTable([j \in 1..Len(root[i].val.table) |->
                           Entry(root[i].val.table[j].key,
                                 New(<<i, j>>, root[i].val.table[j].val))]))
            ELSE Entry(root[i].key, New(<<i>>, root[i].val))]

\* translate_toml, lines 131-138: toml_val.clear(); *toml_val += translated_str
replace_values(root, places, translated_vec) ==
    LET New(place, old) ==
            IF \E k \in Zipped(places, translated_vec) : places[k] = place
            THEN TomlString(translated_vec[
                     CHOOSE k \in Zipped(places, translated_vec) : places[k] = place])
            ELSE old
    IN  [i \in 1..Len(root) |->
            IF root[i].val.kind = "Table"
            THEN Entry(root[i].key,
                       TomlTable([j \in 1..Len(root[i].val.table) |->
                           Entry(root[i].val.table[j].key,
                                 New(<<i, j>>, root[i].val.table[j].val))]))
            ELSE Entry(root[i].key, New(<<i>>, root[i].val))]

\* ---- TOML text
Quote == <<"\"">>

ValueText(v) == IF v.kind = "String" THEN Quote \o v.str \o Quote ELSE v.str

KeyValueLine(e) == e.key \o <<" ", "=", " ">> \o ValueText(e.val) \o <<LF>>

TableHeader(key) == <<"[">> \o key \o <<"]", LF>>

\* the entries of a table that are not tables, and those that are
Plain(root) == SelectSeq(root, LAMBDA e : e.val.kind # "Table")
Tables(root) == SelectSeq(root, LAMBDA e : e.val.kind = "Table")

Reversed(q) == [i \in 1..Len(q) |-> q[Len(q) + 1 - i]]

\* toml::to_string_pretty: the plain entries, then each table under its
\* header, a blank line before a header that is not at the top
to_string_pretty(root) ==
    Concat([i \in 1..Len(Plain(root)) |-> KeyValueLine(Plain(root)[i])])
    \o Concat([i \in 1..Len(Tables(root)) |->
          (IF i > 1 \/ Plain(root) # <<>> THEN <<LF>> ELSE <<>>)
          \o TableHeader(Tables(root)[i].key)
          \o Concat([j \in 1..Len(Tables(root)[i].val.table) |->
                        KeyValueLine(Tables(root)[i].val.table[j])])])

\* the same table as an author may write it: the plain entries in the
\* opposite order and no blank line before a header
AsWritten(root) ==
    Concat([i \in 1..Len(Plain(root)) |-> KeyValueLine(Reversed(Plain(root))[i])])
    \o Concat([i \in 1..Len(Tables(root)) |->
          TableHeader(Tables(root)[i].key)
          \o Concat([j \in 1..Len(Tables(root)[i].val.table) |->
                        KeyValueLine(Tables(root)[i].val.table[j])])])

\* ---- the inputs
StrHi == <<"h", "i">>
StrDoc == <<"d", "o", "c">>
StrNow == <<"n", "o", "w">>
StrMe == <<"m", "e">>
One == <<"1">>

FrontMatterTables ==
    {<<Entry(KeyTitle, TomlString(StrHi))>>,
     <<Entry(KeyDescription, TomlString(StrDoc)), Entry(KeyTitle, TomlString(StrHi))>>,
     <<Entry(KeyAuthor, TomlString(StrMe)),
       Entry(KeyDescription, TomlString(StrDoc)),
       Entry(KeyExtra, TomlTable(<<Entry(KeyMath, TomlString(StrMe)),
                                   Entry(KeyTime, TomlString(StrNow))>>)),
       Entry(KeyTitle, TomlString(StrHi)),
       Entry(KeyWeight, TomlInteger(One))>>,
     <<Entry(KeyExtra, TomlTable(<<Entry(KeyTime, TomlInteger(One)),
                                   Entry(KeyTitle, TomlString(StrHi))>>)),
       Entry(KeyTitle, TomlInteger(One))>>,
     <<Entry(KeyAuthor, TomlString(StrMe)), Entry(KeyExtra, TomlString(StrNow))>>}

TomlTexts ==
    {to_string_pretty(root) : root \in FrontMatterTables}
    \cup {AsWritten(root) : root \in FrontMatterTables}

\* front matter that is no TOML, between "---" lines
YamlText == <<"t", "i", "t", "l", "e", ":", " ", "h", "i", LF>>

\* str.parse::<toml::Value>(): the table the text is a writing of
toml_parse(text) ==
    LET R == {root \in FrontMatterTables :
                 text \in {to_string_pretty(root), AsWritten(root)}}
    IN  IF R = {} THEN None ELSE Some(CHOOSE root \in R : TRUE)

PlusDelimiter == <<"+", "+", "+">>
DashDelimiter == <<"-", "-", "-">>

\* what read_cmark_with_frontmatter returns for the front matter
FrontMatters ==
    {[delimiter |-> <<>>, frontmatter |-> None]}
    \cup {[delimiter |-> PlusDelimiter, frontmatter |-> Some(text)] : text \in TomlTexts}
    \cup {[delimiter |-> DashDelimiter, frontmatter |-> Some(YamlText)]}

CommentEnd == <<"-", "-", ">">>
CommentEndMasked == <<"-", "!", "-", ">">>

Bodies ==
    {<<"a">>,
     <<"a", " ">> \o CommentEnd \o <<" ", "b">>,
     <<"-">> \o CommentEnd,
     CommentEnd \o CommentEnd,
     <<"#", " ", "a", LF, LF, "*", "*", "b", "*", "*">>}

Extensions == {None, Some("md"), Some("mdx"), Some("html")}

\* ---- the provider: a translation is written as the text in capitals;
\* in markup the tags and the entities are kept
UpperOf == [c \in {LowerCase[i] : i \in 1..26} |->
               UpperCase[CHOOSE i \in 1..26 : LowerCase[i] = c]]

ProviderChar(c) == IF c \in DOMAIN UpperOf THEN UpperOf[c] ELSE c

ProviderText(s) == [i \in 1..Len(s) |-> ProviderChar(s[i])]

Count(x, c, n) == Cardinality({k \in 1..n : x[k] = c})

InTag(x, i) == Count(x, "<", i) > Count(x, ">", i - 1)
InEntity(x, i) == Count(x, "&", i) > Count(x, ";", i - 1)

ProviderMarkup(x) ==
    [i \in 1..Len(x) |-> IF InTag(x, i) \/ InEntity(x, i) THEN x[i] ELSE ProviderChar(x[i])]

\* ---- translate_cmark_file
\* extension().is_some() && (extension == "md" || extension == "mdx")
is_md_file_md_only(extension) == extension.is_some /\ extension.value = "md"

is_md_file(extension) == extension.is_some /\ extension.value \in {"md", "mdx"}

\* str::replace: the matches of from, left to right, none overlapping
RECURSIVE str_replace(_, _, _, _)
str_replace(s, i, from, to) ==
    LET k == FindFirst(s, i, from)
    IN  IF k = 0 THEN SubSeq(s, i, Len(s))
        ELSE SubSeq(s, i, k - 1) \o to \o str_replace(s, k + Len(from), from, to)

\* the original text put in the comment as it is
backup_block_unmasked(text) ==
    <<LF, "<", "!", "-", "-", "-", LF>> \o text \o <<LF, "-", "-", ">", LF>>

\* lines 68-72
backup_block(text) ==
    <<LF, "<", "!", "-", "-", "-", LF>>
    \o str_replace(text, 1, CommentEnd, CommentEndMasked)
    \o <<LF, "-", "-", ">", LF>>

\* lines 58-72
write_string(delim, translated_fm, translated_body, backup, original_body) ==
    (IF translated_fm.is_some
     THEN delim \o <<LF>> \o translated_fm.value \o delim \o <<LF>>
     ELSE <<>>)
    \o translated_body
    \o (IF backup THEN backup_block(original_body) ELSE <<>>)

InitFile ==
    /\ IdleIgnore
    /\ IdleBatch
    /\ IdleCore
    /\ IdleGlossary
    /\ IdleCli
    /\ fpc = "start"
    /\ src_extension \in Extensions
    /\ \E fm \in FrontMatters :
          /\ delimiter = fm.delimiter
          /\ frontmatter_text = fm.frontmatter
    /\ body_text \in Bodies
    /\ backup_original_text \in BOOLEAN
    /\ translated_frontmatter = None
    /\ translated_cmark = <<>>
    /\ requests = <<>>
    /\ dst_file = None

StringsRequest(texts) == [kind |-> "strings", texts |-> texts, text |-> <<>>]
XmlRequest(text) == [kind |-> "xml", texts |-> <<>>, text |-> text]

\* translate_toml, lines 86-149, on a front matter that parses to root
TranslateToml(root) ==
    /\ requests' = Append(requests, StringsRequest(src_vec(root)))
    /\ \/ /\ translated_frontmatter' =
                Some(to_string_pretty(
                    replace_values(root, should_be_translate(root),
                                   [k \in 1..Len(src_vec(root)) |->
                                       ProviderText(src_vec(root)[k])])))
          /\ fpc' = "body"
       \/ /\ fpc' = "err"               \* translate_strings is an Err
          /\ UNCHANGED translated_frontmatter

\* translate_cmark_file, lines 38-45
TranslateFrontMatter ==
    /\ fpc = "start"
    /\ IF frontmatter_text.is_some /\ ~is_md_file(src_extension)
       THEN IF toml_parse(frontmatter_text.value).is_some
            THEN TranslateToml(toml_parse(frontmatter_text.value).value)
            ELSE /\ fpc' = "err"        \* the front matter is no TOML
                 /\ UNCHANGED <<translated_frontmatter, requests>>
       ELSE /\ translated_frontmatter' = frontmatter_text
            /\ fpc' = "body"
            /\ UNCHANGED requests
    /\ UNCHANGED <<src_extension, delimiter, frontmatter_text, body_text,
                   backup_original_text, translated_cmark, dst_file>>
    /\ UNCHANGED <<ignoreVars, batchVars, coreVars, glossaryVars, cliVars>>

\* translate_cmark_file, lines 48-49, and translate_cmark
TranslateBody ==
    /\ fpc = "body"
    /\ LET x == add_ignore_tags(IgnoresNone, ThisProject, xml_from_cmark(body_text, TRUE))
       IN  /\ requests' = Append(requests, XmlRequest(x))
           /\ \/ /\ translated_cmark' =
                       cmark_from_xml(remove_ignore_tags(ProviderMarkup(x)), TRUE)
                 /\ fpc' = "write"
              \/ /\ fpc' = "panic"      \* translate_xml is an Err: unwrap()
                 /\ UNCHANGED translated_cmark
    /\ UNCHANGED <<src_extension, delimiter, frontmatter_text, body_text,
                   backup_original_text, translated_frontmatter, dst_file>>
    /\ UNCHANGED <<ignoreVars, batchVars, coreVars, glossaryVars, cliVars>>

\* translate_cmark_file, lines 51-75
WriteFile ==
    /\ fpc = "write"
    /\ \/ /\ dst_file' = Some(write_string(delimiter, translated_frontmatter,
                                           translated_cmark, backup_original_text,
                                           body_text))
          /\ fpc' = "ok"
       \/ /\ fpc' = "err"               \* create_dir_all or File::create is an Err
          /\ UNCHANGED dst_file
    /\ UNCHANGED <<src_extension, delimiter, frontmatter_text, body_text,
                   backup_original_text, translated_frontmatter, translated_cmark,
                   requests>>
    /\ UNCHANGED <<ignoreVars, batchVars, coreVars, glossaryVars, cliVars>>

NextFile == TranslateFrontMatter \/ TranslateBody \/ WriteFile

SpecFile == InitFile /\ [][NextFile]_vars

(***************************************************************************)
(* Vocabulary of the claims about the file.                                *)
(***************************************************************************)
HasFrontMatter == frontmatter_text.is_some

\* the extension of the source file is .md or .mdx
MarkdownExtension == src_extension.is_some /\ src_extension.value \in {"md", "mdx"}

RequestsOfKind(kind) == {i \in 1..Len(requests) : requests[i].kind = kind}

\* translate_cmark_file is past the front matter
PastFrontMatter == fpc \in {"body", "write", "ok", "panic"}

\* the text with "!" put after the first character of every "-->"
Masked(text) ==
    Concat([i \in 1..Len(text) |->
               IF OccursAt(text, i, CommentEnd) THEN <<text[i], "!">> ELSE <<text[i]>>])

\* the comment that keeps the original body, without its last line
CommentOpenAndBody(text) == <<LF, "<", "!", "-", "-", "-", LF>> \o Masked(text)

CommentLastLine == <<LF, "-", "-", ">", LF>>

\* the table with the strings claimed to be translated replaced by the
\* provider's translation of each, and everything else as it was
ExpectedValue(key, val, keys) ==
    IF key \in keys /\ val.kind = "String" THEN TomlString(ProviderText(val.str)) ELSE val

ExpectedToml(root) ==
    [i \in 1..Len(root) |->
        IF root[i].key = KeyExtra /\ root[i].val.kind = "Table"
        THEN Entry(root[i].key,
                   TomlTable([j \in 1..Len(root[i].val.table) |->
                       Entry(root[i].val.table[j].key,
                             ExpectedValue(root[i].val.table[j].key,
                                           root[i].val.table[j].val, {KeyTime}))]))
        ELSE Entry(root[i].key,
                   ExpectedValue(root[i].key, root[i].val, {KeyTitle, KeyDescription}))]

\* the front matter as parsed, the empty table when there is none or no TOML
SourceToml ==
    IF HasFrontMatter /\ toml_parse(frontmatter_text.value).is_some
    THEN toml_parse(frontmatter_text.value).value
    ELSE <<>>

\* the string values of the top-level key title of the source
SourceTitles ==
    {SourceToml[i].val.str : i \in {k \in 1..Len(SourceToml) :
        SourceToml[k].key = KeyTitle /\ SourceToml[k].val.kind = "String"}}

\* what the file holds after the front matter block
BodyAndBackup ==
    translated_cmark
    \o (IF backup_original_text THEN CommentOpenAndBody(body_text) \o CommentLastLine
        ELSE <<>>)

C15_TitleTranslatedInOutput ==
    (fpc = "ok" /\ delimiter = PlusDelimiter /\ SourceTitles # {}) =>
        \E n \in 1..Len(dst_file.value) :
            /\ SubSeq(dst_file.value, n + 1, Len(dst_file.value)) = BodyAndBackup
            /\ IsPrefix(PlusDelimiter \o <<LF>>, dst_file.value)
            /\ SubSeq(dst_file.value, n - 3, n) = PlusDelimiter \o <<LF>>
            /\ \A title \in SourceTitles :
                  Contains(SubSeq(dst_file.value, 1, n),
                           KeyValueLine(Entry(KeyTitle, TomlString(ProviderText(title)))))

C17_TomlFrame ==
    (PastFrontMatter /\ HasFrontMatter /\ ~MarkdownExtension) =>
        /\ translated_frontmatter = Some(to_string_pretty(ExpectedToml(SourceToml)))
        /\ \A i \in RequestsOfKind("strings") :
              Len(requests[i].texts) = Len(should_be_translate(SourceToml))

C17_Witness ==
    /\ fpc = "ok"
    /\ HasFrontMatter
    /\ ~MarkdownExtension
    /\ Len(SourceToml) = 5
    /\ \E i \in RequestsOfKind("strings") : Len(requests[i].texts) = 3
    /\ Contains(dst_file.value, KeyValueLine(Entry(KeyTime, TomlString(ProviderText(StrNow)))))
    /\ Contains(dst_file.value, KeyValueLine(Entry(KeyMath, TomlString(StrMe))))
    /\ Contains(dst_file.value, KeyValueLine(Entry(KeyAuthor, TomlString(StrMe))))

(***************************************************************************)
(* The glossaries: read_glossary on one TOML file, and the lookup of the   *)
(* glossary id DeeplConfig::glossary does for translate_strings.           *)
(*                                                                         *)
(* The file is kept as its tables in the order they are written;           *)
(* toml::from_str puts every table in a map that iterates in ascending     *)
(* order of the keys.                                                      *)
(***************************************************************************)
MaxEntries == 2

KeyGlossaries == <<"g", "l", "o", "s", "s", "a", "r", "i", "e", "s">>
NameColors == <<"c", "o", "l", "o", "r", "s">>
NameNumbers == <<"n", "u", "m", "b", "e", "r", "s">>
NameShapes == <<"s", "h", "a", "p", "e", "s">>

SrcBlue == <<"b", "l", "u", "e">>
SrcRed == <<"r", "e", "d">>
SrcRose == <<"r", "o", "s", "e">>
SrcOne == <<"o", "n", "e">>
DstAka == <<"a", "k", "a">>
DstIchi == <<"i", "c", "h", "i">>
DstQuoted == <<"\"", "h", "i", "\"">>

\* String::cmp on the keys: the order of the first character that differs,
\* a proper prefix first
CharRank(c) == CHOOSE i \in 1..26 : LowerCase[i] = c

str_less(a, b) ==
    \E i \in 1..Len(b) :
        /\ \A j \in 1..(i - 1) : j <= Len(a) /\ a[j] = b[j]
        /\ (i > Len(a) \/ CharRank(a[i]) < CharRank(b[i]))

\* toml::from_str: the tables of the file as maps, every one in ascending
\* order of its keys
RECURSIVE toml_from_str(_)
toml_from_str(written) ==
    [i \in 1..Len(written) |->
        LET e == CHOOSE e \in Range(written) :
                     Cardinality({f \in Range(written) : str_less(f.key, e.key)}) = i - 1
        IN  Entry(e.key, IF e.val.kind = "Table"
                         THEN TomlTable(toml_from_str(e.val.table))
                         ELSE e.val)]

\* Value::get / Map::get
toml_get(v, key) ==
    IF v.kind = "Table" /\ \E i \in 1..Len(v.table) : v.table[i].key = key
    THEN Some(v.table[CHOOSE i \in 1..Len(v.table) : v.table[i].key = key].val)
    ELSE None

\* Value::to_string: a string comes out as TOML writes it.  The writer of
\* the toml crate in use decides between a basic string, with " and \
\* escaped, and, when the text holds a " and no ', a literal string.
Backslash == <<"\\">>
Apostrophe == <<"'">>

escape_basic(s) ==
    Concat([i \in 1..Len(s) |->
               IF <<s[i]>> = Quote \/ <<s[i]>> = Backslash
               THEN Backslash \o <<s[i]>> ELSE <<s[i]>>])

WriterStyles == {"basic", "literal"}

value_to_string(v, style) ==
    IF v.kind # "String" THEN v.str
    ELSE IF style = "literal" /\ Contains(v.str, Quote) /\ ~Contains(v.str, Apostrophe)
         THEN Apostrophe \o v.str \o Apostrophe
         ELSE Quote \o escape_basic(v.str) \o Quote

\* the (from, to) pairs pushed for the entries of a glossary table
pushed_pairs(glossary_map, style) ==
    [i \in 1..Len(glossary_map) |->
        <<glossary_map[i].key,
          str_replace(value_to_string(glossary_map[i].val, style), 1, Quote, <<>>)>>]

\* read_glossary: None is a panic
read_glossary(name, file, style) ==
    LET toml_value == TomlTable(toml_from_str(file))
        glossaries_value == toml_get(toml_value, KeyGlossaries)
        glossary_value == IF glossaries_value.is_some
                          THEN toml_get(glossaries_value.value, name) ELSE None
    IN  IF ~glossaries_value.is_some THEN None
        ELSE IF ~glossary_value.is_some THEN None
        ELSE IF glossary_value.value.kind # "Table" THEN None
        ELSE Some(pushed_pairs(glossary_value.value.table, style))

\* the files read: a table glossaries with the glossaries colors and
\* numbers, written in either order, or a file without the table
Sources == {SrcBlue, SrcRed, SrcRose}
Targets == {DstAka, DstQuoted}

WrittenGlossaries ==
    {w \in SeqsUpTo({Entry(k, TomlString(t)) : k \in Sources, t \in Targets}, MaxEntries) :
        \A i, j \in 1..Len(w) : i # j => w[i].key # w[j].key}

NumbersGlossary == Entry(NameNumbers, TomlTable(<<Entry(SrcOne, TomlString(DstIchi))>>))

GlossaryFiles ==
    {<<Entry(KeyTitle, TomlString(StrHi))>>}
    \cup {<<Entry(KeyGlossaries,
                  TomlTable(<<NumbersGlossary, Entry(NameColors, TomlTable(w))>>))>> :
             w \in WrittenGlossaries}
    \cup {<<Entry(KeyGlossaries,
                  TomlTable(<<Entry(NameColors, TomlTable(w)), NumbersGlossary>>))>> :
             w \in WrittenGlossaries}

GlossaryNames == {NameColors, NameNumbers, NameShapes}

\* Language::as_langcode
Languages == {"De", "Es", "En", "Fr", "It", "Ja", "Nl", "Pt", "PtBr", "Ru"}

CodePtBr == <<"p", "t", "-", "b", "r">>

as_langcode ==
    [l \in Languages |->
        CASE l = "De" -> <<"d", "e">>
          [] l = "Es" -> <<"e", "s">>
          [] l = "En" -> <<"e", "n">>
          [] l = "Fr" -> <<"f", "r">>
          [] l = "It" -> <<"i", "t">>
          [] l = "Ja" -> <<"j", "a">>
          [] l = "Nl" -> <<"n", "l">>
          [] l = "Pt" -> CodePtBr
          [] l = "PtBr" -> CodePtBr
          [] l = "Ru" -> <<"r", "u">>]

\* DeeplConfig.glossaries: the entries [project, key, id] of the map of
\* maps, one for a project and a key at most
project_name == "docs"
Projects == {project_name, "blog"}

glossary_key(from_lang, to_lang) ==
    as_langcode[from_lang] \o <<"_">> \o as_langcode[to_lang]

ProjectGlossaries(p) ==
    {{}, {[project |-> p, key |-> <<"e", "n", "_", "j", "a">>, id |-> p \o "-en-ja"]},
         {[project |-> p, key |-> <<"e", "n", "_">> \o CodePtBr, id |-> p \o "-en-pt"]}}

Configurations ==
    {a \cup b : a \in ProjectGlossaries(project_name), b \in ProjectGlossaries("blog")}

LanguagePairs == {<<"En", "Ja">>, <<"En", "PtBr">>, <<"Ja", "En">>}

\* DeeplConfig::glossary: the id of the first project met that has the key.
\* A HashMap gives its entries in no fixed order, so the first one met is
\* any of the projects that have it.
glossary(glossaries, from_lang, to_lang) ==
    LET with_key == {e \in glossaries : e.key = glossary_key(from_lang, to_lang)}
    IN  IF with_key = {} THEN {None} ELSE {Some(e.id) : e \in with_key}

InitGlossary ==
    /\ IdleIgnore
    /\ IdleBatch
    /\ IdleCore
    /\ IdleFile
    /\ IdleCli
    /\ rpc = "input"
    /\ glossary_toml \in GlossaryFiles
    /\ glossary_name \in GlossaryNames
    /\ glossary_read = None
    /\ lpc = "input"
    /\ cfg_glossaries \in Configurations
    /\ lang_pair \in LanguagePairs
    /\ glossary_id = None

\* main.rs: glossary::read_glossary(&name, input)
ReadGlossary ==
    /\ rpc = "input"
    /\ \E style \in WriterStyles :
          LET read == read_glossary(glossary_name, glossary_toml, style)
          IN  /\ glossary_read' = read
              /\ rpc' = IF read.is_some THEN "ok" ELSE "panicked"
    /\ UNCHANGED <<glossary_toml, glossary_name, lpc, cfg_glossaries, lang_pair,
                   glossary_id>>
    /\ UNCHANGED <<ignoreVars, batchVars, coreVars, fileVars, cliVars>>

\* translate_strings: self.config.glossary(from_lang, to_lang)
LookupGlossary ==
    /\ lpc = "input"
    /\ glossary_id' \in glossary(cfg_glossaries, lang_pair[1], lang_pair[2])
    /\ lpc' = "done"
    /\ UNCHANGED <<rpc, glossary_toml, glossary_name, glossary_read, cfg_glossaries,
                   lang_pair>>
    /\ UNCHANGED <<ignoreVars, batchVars, coreVars, fileVars, cliVars>>

NextGlossary == ReadGlossary \/ LookupGlossary

SpecGlossary == InitGlossary /\ [][NextGlossary]_vars

\* the id the configuration has for the current project and the pair
ConfiguredForProject ==
    LET own == {e \in cfg_glossaries :
                   /\ e.project = project_name
                   /\ e.key = glossary_key(lang_pair[1], lang_pair[2])}
    IN  IF own = {} THEN None ELSE Some((CHOOSE e \in own : TRUE).id)

(***************************************************************************)
(* C18: the glossary id attached to a batch translation is the one the     *)
(* configuration has for the current project under the key                 *)
(* "{source}_{target}", and none when that project has no such key,        *)
(* whatever the other projects define.                                     *)
(***************************************************************************)
C18_GlossaryOfProject == (lpc = "done") => glossary_id = ConfiguredForProject

\* the entries of glossaries.<name> as the file has them
AskedGlossary ==
    LET glossaries == CHOOSE e \in Range(glossary_toml) : e.key = KeyGlossaries
        asked == CHOOSE e \in Range(glossaries.val.table) : e.key = glossary_name
    IN  asked.val.table

ConfiguredPairs == {<<e.key, e.val.str>> : e \in Range(AskedGlossary)}

Ascending(pairs) ==
    \A i \in 1..(Len(pairs) - 1) : str_less(pairs[i][1], pairs[i + 1][1])

(***************************************************************************)
(* C19: read_glossary(name, path) returns the (source, target) entries of  *)
(* the table glossaries.<name> of the file and no others, one pair for     *)
(* each entry, in ascending order of the source term, each target being    *)
(* the configured string.                                                  *)
(***************************************************************************)
C19_ReadsTheNamedGlossary ==
    (rpc = "ok") =>
        /\ Len(glossary_read.value) = Len(AskedGlossary)
        /\ Range(glossary_read.value) = ConfiguredPairs
        /\ Ascending(glossary_read.value)

(***************************************************************************)
(* The quota check on the widths of the machine: get_usage returns an i32, *)
(* api_availability_check computes in usize.                               *)
(***************************************************************************)
MaxTextLen == 3

I32Max == 2147483647
I32Min == -I32Max - 1

\* the counts get_usage may return: the ends of i32, the values around 0
\* and the values around MAX_TRANSLATE_LENGTH
UsageValues ==
    {I32Min, I32Min + 1, -1, 0, 1, I32Max}
    \cup ((MAX_TRANSLATE_LENGTH - MaxTextLen - 1)..(MAX_TRANSLATE_LENGTH + MaxTextLen + 1))

\* the lengths of the texts: short ones, and the quota and one more
TextLens == (0..MaxTextLen) \cup {MAX_TRANSLATE_LENGTH, MAX_TRANSLATE_LENGTH + 1}

InitUsage ==
    /\ IdleIgnore
    /\ IdleBatch
    /\ IdleCore
    /\ IdleFile
    /\ IdleGlossary
    /\ IdleWalk
    /\ IdleLang
    /\ upc = "input"
    /\ character_count \in UsageValues
    /\ payload_len \in TextLens

\* api_availability_check(deepl, text)
CheckAvailability ==
    /\ upc = "input"
    /\ upc' \in api_availability_check(character_count, payload_len)
    /\ UNCHANGED <<character_count, payload_len>>
    /\ UNCHANGED <<ignoreVars, batchVars, coreVars, fileVars, glossaryVars, walkVars,
                   langVars>>

NextUsage == CheckAvailability

SpecUsage == InitUsage /\ [][NextUsage]_vars

Checked == upc \in {"Ok", "Err", "Panic"}

(***************************************************************************)
(* C21: whenever the used character count is MAX_TRANSLATE_LENGTH or more, *)
(* api_availability_check returns an error for every non-empty text, and   *)
(* for no i32 count does it panic.                                         *)
(***************************************************************************)
C21_ExhaustedQuotaIsAnError ==
    Checked =>
        /\ upc # "Panic"
        /\ (character_count >= MAX_TRANSLATE_LENGTH /\ payload_len > 0) => upc = "Err"

(***************************************************************************)
(* The languages of a translation: main parses the arguments --from and    *)
(* --to with Language::from_str, and the requests carry                    *)
(* Language::as_langcode of the two.                                       *)
(***************************************************************************)
\* str::to_ascii_lowercase
to_ascii_lowercase(s) ==
    [i \in 1..Len(s) |->
        IF \E c \in DOMAIN UpperOf : UpperOf[c] = s[i]
        THEN CHOOSE c \in DOMAIN UpperOf : UpperOf[c] = s[i]
        ELSE s[i]]

\* Language::from_str: None is Err(InvalidInput)
from_str(s) ==
    LET lowcase == to_ascii_lowercase(s)
    IN  CASE lowcase = <<"d", "e">> -> Some("De")
          [] lowcase = <<"e", "s">> -> Some("Es")
          [] lowcase = <<"e", "n">> -> Some("En")
          [] lowcase = <<"f", "r">> -> Some("Fr")
          [] lowcase = <<"i", "t">> -> Some("It")
          [] lowcase = <<"j", "a">> -> Some("Ja")
          [] lowcase = <<"n", "l">> -> Some("Nl")
          [] lowcase = <<"p", "t">> -> Some("Pt")
          [] lowcase = CodePtBr -> Some("PtBr")
          [] lowcase = <<"r", "u">> -> Some("Ru")
          [] OTHER -> None

\* the arguments given: every code in small letters, some in capitals, and
\* one that is no language
LangArgs ==
    {<<"d", "e">>, <<"e", "s">>, <<"e", "n">>, <<"f", "r">>, <<"i", "t">>,
     <<"j", "a">>, <<"n", "l">>, <<"p", "t">>, CodePtBr, <<"r", "u">>,
     <<"P", "T">>, <<"E", "n">>, <<"x", "x">>}

InitLang ==
    /\ IdleIgnore
    /\ IdleBatch
    /\ IdleCore
    /\ IdleFile
    /\ IdleGlossary
    /\ IdleUsage
    /\ IdleWalk
    /\ npc = "input"
    /\ from_arg \in LangArgs
    /\ to_arg \in LangArgs
    /\ lang_from = None
    /\ lang_to = None
    /\ source_lang = <<>>
    /\ target_lang = <<>>

\* let lang_from = deepl::Language::from_str(&from)?; and the same for to
ParseLanguages ==
    /\ npc = "input"
    /\ lang_from' = from_str(from_arg)
    /\ lang_to' = IF from_str(from_arg).is_some THEN from_str(to_arg) ELSE None
    /\ npc' = IF from_str(from_arg).is_some /\ from_str(to_arg).is_some
              THEN "parsed" ELSE "invalid"
    /\ UNCHANGED <<from_arg, to_arg, source_lang, target_lang>>
    /\ UNCHANGED <<ignoreVars, batchVars, coreVars, fileVars, glossaryVars, usageVars,
                   walkVars>>

\* ("source_lang", from_lang.as_langcode()), ("target_lang", to_lang.as_langcode())
SendLanguages ==
    /\ npc = "parsed"
    /\ source_lang' = as_langcode[lang_from.value]
    /\ target_lang' = as_langcode[lang_to.value]
    /\ npc' = "sent"
    /\ UNCHANGED <<from_arg, to_arg, lang_from, lang_to>>
    /\ UNCHANGED <<ignoreVars, batchVars, coreVars, fileVars, glossaryVars, usageVars,
                   walkVars>>

NextLang == ParseLanguages \/ SendLanguages

SpecLang == InitLang /\ [][NextLang]_vars

(***************************************************************************)
(* C23: parsing the code of a language with from_str gives the language    *)
(* back, and two different languages are sent as two different codes; Pt   *)
(* and PtBr in particular.                                                 *)
(***************************************************************************)
C23_LangCodeRoundTrip ==
    (npc = "sent") =>
        /\ from_str(source_lang) = lang_from
        /\ from_str(target_lang) = lang_to
        /\ (lang_from # lang_to) => source_lang # target_lang

(***************************************************************************)
(* Directory mode of main: walkdir::new lists the paths below the input    *)
(* directory, and main pairs each of them with its destination.  A path is *)
(* its text; the separator is that of Unix.                                *)
(***************************************************************************)
MaxDepth == 2

sep == <<"/">>

ends_with(s, t) == Len(t) <= Len(s) /\ OccursAt(s, Len(s) - Len(t) + 1, t)

\* Path::join with a relative or an absolute path
path_join(base, path) ==
    IF OccursAt(path, 1, sep) THEN path
    ELSE IF base = <<>> \/ ends_with(base, sep) THEN base \o path
    ELSE base \o sep \o path

\* the names of a path, one for each component
RECURSIVE components(_)
components(path) ==
    LET k == FindFirst(path, 1, sep)
    IN  IF path = <<>> THEN <<>>
        ELSE IF k = 0 THEN <<path>>
        ELSE IF k = 1 THEN components(SubSeq(path, 2, Len(path)))
        ELSE <<SubSeq(path, 1, k - 1)>> \o components(SubSeq(path, k + 1, Len(path)))

\* DirEntry::file_name
file_name(path) == components(path)[Len(components(path))]

\* the entries below the input directory in the order WalkDir meets them,
\* each by its names from the input directory down
NameA == <<"a", ".", "m", "d">>
NameB == <<"b", ".", "t", "x", "t">>
NameHidden == <<".", "h", ".", "m", "d">>
NameS == <<"s">>
NameT == <<"t">>

Trees ==
    {<<>>,
     <<(<<NameA>>)>>,
     <<(<<NameA>>), <<NameB>>>>,
     <<(<<NameA>>), <<NameS>>, <<NameS, NameA>>>>,
     <<(<<NameS>>), <<NameS, NameT>>, <<NameS, NameT, NameA>>>>,
     <<(<<NameHidden>>), <<NameA>>>>}

InputDirs == {<<"i", "n">>, <<"i", "n", "/">>}
OutputDirs == {<<"o", "u", "t">>, <<"o", "u", "t", "/">>}
MaxDepths == {None} \cup {Some(d) : d \in 0..MaxDepth}
TargetExtensions == {None, Some({<<"m", "d">>}), Some({<<"m", "d">>, <<"t", "x", "t">>})}

\* the hidden argument main passes
hidden == TRUE

is_hidden(path) == OccursAt(file_name(path), 1, <<".">>)

\* check_extension: the name matches .*\.(ext|..)$
check_extension(ext, path) ==
    ~ext.is_some \/ \E e \in ext.value : ends_with(file_name(path), <<".">> \o e)

\* WalkDir::new(path).max_depth(max_depth): the directory itself at depth
\* 0, then the entries down to max_depth
WalkDir(path, depth, entries) ==
    <<path>> \o
    Concat([i \in 1..Len(entries) |->
               IF ~depth.is_some \/ Len(entries[i]) <= depth.value
               THEN <<path_join(path, Concat([j \in 1..Len(entries[i]) |->
                                                 IF j = 1 THEN entries[i][j]
                                                 ELSE sep \o entries[i][j]]))>>
               ELSE <<>>])

\* walkdir::new
walkdir_new(path, depth, extensions, entries) ==
    LET walkdir == WalkDir(path, depth, entries)
    IN  Concat([i \in 1..Len(walkdir) |->
                   IF (~hidden /\ is_hidden(walkdir[i]))
                      \/ ~check_extension(extensions, walkdir[i])
                   THEN <<>> ELSE <<walkdir[i]>>])

\* str::replacen(from, "", 1)
replacen_first(s, from) ==
    LET k == FindFirst(s, 1, from)
    IN  IF k = 0 THEN s ELSE SubSeq(s, 1, k - 1) \o SubSeq(s, k + Len(from), Len(s))

\* the text joined to the output directory for a path; None where
\* chars().nth(0).unwrap() panics
path_join_string(file_path_string, input) ==
    LET replaced == replacen_first(file_path_string, input)
    IN  IF replaced = <<>> THEN None
        ELSE IF <<replaced[1]>> = sep THEN Some(replacen_first(replaced, sep))
        ELSE Some(replaced)

InitWalk ==
    /\ IdleIgnore
    /\ IdleBatch
    /\ IdleCore
    /\ IdleFile
    /\ IdleGlossary
    /\ IdleUsage
    /\ IdleLang
    /\ wpc = "input"
    /\ input_dir \in InputDirs
    /\ output_dir \in OutputDirs
    /\ max_depth \in MaxDepths
    /\ target_extensions \in TargetExtensions
    /\ dir_entries \in Trees
    /\ walkdir_res = <<>>
    /\ files = <<>>

\* walkdir::new(&deepl.unwrap(), PathBuf::from(&input), max_depth, hidden)
Walk ==
    /\ wpc = "input"
    /\ walkdir_res' = walkdir_new(input_dir, max_depth, target_extensions, dir_entries)
    /\ wpc' = "walked"
    /\ UNCHANGED <<input_dir, output_dir, max_depth, target_extensions, dir_entries, files>>
    /\ UNCHANGED <<ignoreVars, batchVars, coreVars, fileVars, glossaryVars, usageVars,
                   langVars>>

\* the closure of .iter().map(..) on the next path
PairEntry ==
    /\ wpc = "walked"
    /\ Len(files) < Len(walkdir_res)
    /\ LET file_path_string == walkdir_res[Len(files) + 1]
           joined == path_join_string(file_path_string, input_dir)
       IN  IF joined.is_some
           THEN /\ files' = Append(files, <<file_path_string,
                                            path_join(output_dir, joined.value)>>)
                /\ UNCHANGED wpc
           ELSE /\ wpc' = "panicked"
                /\ UNCHANGED files
    /\ UNCHANGED <<input_dir, output_dir, max_depth, target_extensions, dir_entries,
                   walkdir_res>>
    /\ UNCHANGED <<ignoreVars, batchVars, coreVars, fileVars, glossaryVars, usageVars,
                   langVars>>

\* .collect::<Vec<_>>() once every path is paired
CollectPairs ==
    /\ wpc = "walked"
    /\ Len(files) = Len(walkdir_res)
    /\ wpc' = "paired"
    /\ UNCHANGED <<input_dir, output_dir, max_depth, target_extensions, dir_entries,
                   walkdir_res, files>>
    /\ UNCHANGED <<ignoreVars, batchVars, coreVars, fileVars, glossaryVars, usageVars,
                   langVars>>

NextWalk == Walk \/ PairEntry \/ CollectPairs

SpecWalk == InitWalk /\ [][NextWalk]_vars

\* the names of a path below the input directory
RelativeToInput(path) ==
    SubSeq(components(path), Len(components(input_dir)) + 1, Len(components(path)))

Mirrors(pair) ==
    components(pair[2]) = components(output_dir) \o RelativeToInput(pair[1])

(***************************************************************************)
(* C22: in directory mode every path the walk returns is paired with the   *)
(* output directory joined with the location of the path relative to the   *)
(* input directory, and the pairs are built for every path returned, the   *)
(* input directory itself included.                                        *)
(***************************************************************************)
C22_OutputMirrorsInput ==
    /\ wpc # "panicked"
    /\ wpc \in {"walked", "paired"} =>
          \A k \in 1..Len(files) : files[k][1] = walkdir_res[k] /\ Mirrors(files[k])
    /\ wpc = "paired" => Len(files) = Len(walkdir_res)

====
